---- MODULE Spec2Model ----
(***************************************************************************)
(* mergerfs: the rmdir entry point (src/src/rmdir.cpp) and the getxattr    *)
(* entry point (src/src/getxattr.cpp), run by FUSE worker threads over a   *)
(* shared Config whose branch list (srcmounts) a reconfiguration thread    *)
(* replaces under the write side of srcmountslock.                         *)
(*                                                                         *)
(* A string is a sequence of one-byte strings, so that lengths, splitting  *)
(* and joining are computed as the code computes them.                     *)
(***************************************************************************)
EXTENDS Integers, Sequences, FiniteSets, TLC

(***************************************************************************)
(* Bounds of the model.                                                    *)
(***************************************************************************)
\* supplied buffer sizes 0..MaxCount are tried, plus BufCap, the capacity of the
\* caller's buffer (every value of the model fits)
MaxCount == 3
BufCap == 12

(***************************************************************************)
(* Platform error numbers (Linux), returned negated.                       *)
(***************************************************************************)
ENOENT == 2
EACCES == 13
ENOTDIR == 20
EINVAL == 22
ERANGE == 34
ENOTEMPTY == 39
ENOATTR == 61
EOPNOTSUPP == 95

(***************************************************************************)
(* String literals of the source.                                          *)
(***************************************************************************)
s_user == <<"u","s","e","r">>
s_mergerfs == <<"m","e","r","g","e","r","f","s">>
s_srcmounts == <<"s","r","c","m","o","u","n","t","s">>
s_minfreespace == <<"m","i","n","f","r","e","e","s","p","a","c","e">>
s_maxsize == <<"m","a","x","s","i","z","e">>
s_moveonenospc == <<"m","o","v","e","o","n","e","n","o","s","p","c">>
s_dropcacheonclose == <<"d","r","o","p","c","a","c","h","e","o","n","c","l","o","s","e">>
s_symlinkify == <<"s","y","m","l","i","n","k","i","f","y">>
s_symlinkify_timeout == <<"s","y","m","l","i","n","k","i","f","y","_","t","i","m","e","o","u","t">>
s_policies == <<"p","o","l","i","c","i","e","s">>
s_version == <<"v","e","r","s","i","o","n">>
s_pid == <<"p","i","d">>
s_category == <<"c","a","t","e","g","o","r","y">>
s_func == <<"f","u","n","c">>
s_basepath == <<"b","a","s","e","p","a","t","h">>
s_relpath == <<"r","e","l","p","a","t","h">>
s_fullpath == <<"f","u","l","l","p","a","t","h">>
s_allpaths == <<"a","l","l","p","a","t","h","s">>
s_true == <<"t","r","u","e">>
s_false == <<"f","a","l","s","e">>
\* "user.mergerfs."
s_prefix == s_user \o <<".">> \o s_mergerfs \o <<".">>
\* the byte '\0'
NUL == "^@"

(***************************************************************************)
(* str.hpp, fs_path.hpp: the string helpers the two files call.            *)
(***************************************************************************)
\* position of the first d in s, 0 when there is none
RECURSIVE IndexOf(_,_,_)
IndexOf(s, d, i) ==
  IF i > Len(s) THEN 0
  ELSE IF s[i] = d THEN i
  ELSE IndexOf(s, d, i + 1)

\* str::split: getline-style tokens; no token for the empty string or after a
\* trailing delimiter
RECURSIVE split(_,_)
split(s, d) ==
  IF s = <<>> THEN <<>>
  ELSE LET k == IndexOf(s, d, 1)
       IN IF k = 0 THEN <<s>>
          ELSE <<SubSeq(s, 1, k - 1)>> \o split(SubSeq(s, k + 1, Len(s)), d)

\* str::join: the elements of vec with sep between them
RECURSIVE join(_,_)
join(vec, sep) ==
  IF vec = <<>> THEN <<>>
  ELSE IF Len(vec) = 1 THEN vec[1]
  ELSE vec[1] \o <<sep>> \o join(Tail(vec), sep)

\* str::isprefix: s0 starts with s1
isprefix(s0, s1) ==
  /\ Len(s0) >= Len(s1)
  /\ SubSeq(s0, 1, Len(s1)) = s1

\* fs::path::make: base + suffix
path_make(base, suffix) == base \o suffix

\* operator<< of an unsigned integer: its decimal digits
Digit(n) == <<"0","1","2","3","4","5","6","7","8","9">>[n + 1]

RECURSIVE Decimal(_)
Decimal(n) ==
  IF n < 10 THEN <<Digit(n)>>
  ELSE Decimal(n \div 10) \o <<Digit(n % 10)>>

(***************************************************************************)
(* Lexicographic order of strings (std::string operator<, used by          *)
(* std::sort), over the bytes that occur in policy names.                  *)
(***************************************************************************)
Alphabet == <<"a","b","c","d","e","f","g","h","i","j","k","l","m","n","o","p","q","r","s","t","u","v","w","x","y","z">>

Ord(c) == IndexOf(Alphabet, c, 1)

RECURSIVE StrLess(_,_)
StrLess(a, b) ==
  IF b = <<>> THEN FALSE
  ELSE IF a = <<>> THEN TRUE
  ELSE IF Ord(a[1]) < Ord(b[1]) THEN TRUE
  ELSE IF Ord(a[1]) > Ord(b[1]) THEN FALSE
  ELSE StrLess(Tail(a), Tail(b))

\* std::sort of a vector of strings
RECURSIVE Insert(_,_)
Insert(x, v) ==
  IF v = <<>> THEN <<x>>
  ELSE IF StrLess(v[1], x) THEN <<v[1]>> \o Insert(x, Tail(v))
  ELSE <<x>> \o v

RECURSIVE sort(_)
sort(v) == IF v = <<>> THEN <<>> ELSE Insert(v[1], sort(Tail(v)))

\* std::unique + erase: adjacent duplicates removed
RECURSIVE unique(_)
unique(v) ==
  IF Len(v) <= 1 THEN v
  ELSE IF v[1] = v[2] THEN unique(Tail(v))
  ELSE <<v[1]>> \o unique(Tail(v))

(***************************************************************************)
(* The registries: policies, categories and FUSE functions.                *)
(***************************************************************************)
s_all == <<"a","l","l">>
s_ff == <<"f","f">>
s_mfs == <<"m","f","s">>
s_search == <<"s","e","a","r","c","h">>
s_action == <<"a","c","t","i","o","n">>
s_create == <<"c","r","e","a","t","e">>
s_getxattr == <<"g","e","t","x","a","t","t","r">>
s_rmdir == <<"r","m","d","i","r">>
s_mkdir == <<"m","k","d","i","r">>
s_chmod == <<"c","h","m","o","d">>

\* Policy::policies, in registry order
Policies == <<s_all, s_ff, s_mfs>>

\* Category names
Categories == {s_action, s_create, s_search}

\* FuseFunc::fusefuncs: every function with its category, in enum order
FuseFuncs ==
  << [name |-> s_chmod,    category |-> s_action],
     [name |-> s_getxattr, category |-> s_search],
     [name |-> s_mkdir,    category |-> s_create],
     [name |-> s_rmdir,    category |-> s_action] >>

\* FuseFunc::find: the index of the function called name, 0 (invalid) if none
FuseFunc_find(name) ==
  IF \E i \in 1..Len(FuseFuncs) : FuseFuncs[i].name = name
  THEN CHOOSE i \in 1..Len(FuseFuncs) : FuseFuncs[i].name = name
  ELSE 0

\* Category::find: the category called name, <<>> (invalid) if none
Category_find(name) == IF name \in Categories THEN name ELSE <<>>

\* positions of getxattr and rmdir in config.policies
FF_getxattr == FuseFunc_find(s_getxattr)
FF_rmdir == FuseFunc_find(s_rmdir)

(***************************************************************************)
(* Branches, paths and callers.                                            *)
(***************************************************************************)
BranchA == <<"/","a">>
BranchB == <<"/","b">>
Branches == {BranchA, BranchB}

\* the directory the operations are issued against
PathD == <<"/","d">>
\* config.controlfile
ControlFile == <<"/",".","m","e","r","g","e","r","f","s">>
FusePaths == {PathD, ControlFile}

\* the branch lists a reconfiguration installs
Snapshots == { <<BranchA>>, <<BranchA, BranchB>>, <<BranchB, BranchA>> }

\* the branch lists the driver may be started with
BranchLists == Snapshots \cup { <<>>, <<BranchB>> }

\* free space of each branch, for the mfs policy
FreeSpace(base) == IF base = BranchA THEN 10 ELSE 20

\* uid/gid pairs: the driver's own identity
Root == <<0, 0>>
\* the calling principal (fc->uid, fc->gid) whose requests each worker serves
CallerOf(t) == IF t = "t1" THEN <<1000, 1000>> ELSE <<1001, 100>>

Threads == {"t1", "t2"}

\* the caller's buffer before the call: BufCap bytes nothing has written
Poison == "?"
FreshBuf == [i \in 1..BufCap |-> Poison]

Counts == (0..MaxCount) \cup {BufCap}

(***************************************************************************)
(* State.                                                                  *)
(***************************************************************************)
VARIABLES
  config,         \* the Config: srcmounts, tunables, policies, controlfile
  srcmountslock,  \* config.srcmountslock: [readers, writer]
  reconf,         \* the reconfiguration thread: [pc, new, k]
  present,        \* the branches on which PathD exists
  crashed,        \* the process has faulted
  pc,             \* each worker thread's position
  op,             \* each worker thread's current request
  frame,          \* each worker thread's locals
  ugid,           \* each worker thread's effective uid/gid
  guard,          \* the identity saved by the thread's ugid scope object
  buf,            \* the caller's buffer
  result,         \* the value returned to the caller
  calls,          \* history: the system calls the current operation issued
  seen,           \* history: the values of config.srcmounts the operation read
  oob,            \* history: the operation indexed a vector out of range
  ugid0,          \* history: the thread's identity when the operation began
  credentials     \* what a ugid scope object changes: the calling thread's
                  \* identity ("thread") or the whole process's ("process")

vars == << config, srcmountslock, reconf, present, crashed, pc, op, frame,
           ugid, guard, buf, result, calls, seen, oob, ugid0, credentials >>

NoResult == "none"

Frame0 ==
  [ paths |-> <<>>, i |-> 0, rv |-> 0, error |-> 0, errno |-> 0,
    basepath |-> <<>>, fullpath |-> <<>>, attrvalue |-> <<>>, served |-> "none",
    resolved |-> FALSE, ret |-> 0 ]

Op0 == [ kind |-> "none", fusepath |-> <<>>, attrname |-> <<>>, count |-> 0, caller |-> Root ]

(***************************************************************************)
(* The underlying store and the policies (fs.hpp, policy.hpp).             *)
(***************************************************************************)
\* lstat succeeds on base + fusepath
exists(base, fusepath, fs) == fusepath = PathD /\ base \in fs

\* indexes of the branches of srcmounts holding fusepath
Holding(srcmounts, fusepath, fs) ==
  { i \in 1..Len(srcmounts) : exists(srcmounts[i], fusepath, fs) }

Min(S) == CHOOSE x \in S : \A y \in S : x <= y

\* Search policy ff: the first branch, in configured order, holding the path
search_ff(srcmounts, fusepath, fs) ==
  LET found == Holding(srcmounts, fusepath, fs)
  IN IF found = {}
     THEN [rv |-> -1, errno |-> ENOENT, basepaths |-> <<>>, probed |-> srcmounts]
     ELSE [rv |-> 0, errno |-> 0, basepaths |-> <<srcmounts[Min(found)]>>,
           probed |-> SubSeq(srcmounts, 1, Min(found))]

\* Search policy mfs: the branch holding the path with the most free space
search_mfs(srcmounts, fusepath, fs) ==
  LET found == Holding(srcmounts, fusepath, fs)
      best  == Min({ i \in found :
                       \A j \in found : FreeSpace(srcmounts[j]) <= FreeSpace(srcmounts[i]) })
  IN IF found = {}
     THEN [rv |-> -1, errno |-> ENOENT, basepaths |-> <<>>, probed |-> srcmounts]
     ELSE [rv |-> 0, errno |-> 0, basepaths |-> <<srcmounts[best]>>, probed |-> srcmounts]

\* mutant: the Search function bound once, at startup (ff), whatever is assigned
SearchFunc_startup(policy, srcmounts, fusepath, fs) == search_ff(srcmounts, fusepath, fs)

\* config.getxattr: the Search function of the assigned policy
SearchFunc(policy, srcmounts, fusepath, fs) ==
  IF policy = s_mfs THEN search_mfs(srcmounts, fusepath, fs)
  ELSE search_ff(srcmounts, fusepath, fs)

\* fs::Path of a branch: its base and base + fusepath
Path(base, fusepath) == [base |-> base, full |-> path_make(base, fusepath)]

\* Action policy all: every branch holding the path, in configured order
action_all(srcmounts, fusepath, fs) ==
  LET held == SelectSeq(srcmounts, LAMBDA b : exists(b, fusepath, fs))
  IN [paths |-> [i \in 1..Len(held) |-> Path(held[i], fusepath)], probed |-> srcmounts]

\* Action policy ff: the first branch holding the path
action_ff(srcmounts, fusepath, fs) ==
  LET r == search_ff(srcmounts, fusepath, fs)
  IN [paths |-> [i \in 1..Len(r.basepaths) |-> Path(r.basepaths[i], fusepath)],
      probed |-> r.probed]

\* config.policy.action: the Action function of the assigned policy
ActionFunc(policy, srcmounts, fusepath, fs) ==
  IF policy = s_ff THEN action_ff(srcmounts, fusepath, fs)
  ELSE action_all(srcmounts, fusepath, fs)

\* fs::findallfiles: base + fusepath of every branch on which it exists
findallfiles(srcmounts, fusepath, fs) ==
  LET held == SelectSeq(srcmounts, LAMBDA b : exists(b, fusepath, fs))
  IN [i \in 1..Len(held) |-> path_make(held[i], fusepath)]

\* the error a failing ::rmdir reports on each branch's entry
RmdirErrno(base) == IF base = BranchA THEN EACCES ELSE ENOTEMPTY

\* ::rmdir on a branch: the outcomes the platform allows
sys_rmdir(base, fusepath, fs) ==
  IF exists(base, fusepath, fs)
  THEN { [rv |-> 0, errno |-> 0, fs |-> fs \ {base}],
         [rv |-> -1, errno |-> RmdirErrno(base), fs |-> fs] }
  ELSE { [rv |-> -1, errno |-> ENOENT, fs |-> fs] }

\* one logged system call: what was called on what, as whom, under the read lock
\* or not, and what it returned
Call(t, sys, path, rv, errno) ==
  [sys |-> sys, path |-> path, ugid |-> ugid[t],
   locked |-> t \in srcmountslock.readers, rv |-> rv, errno |-> errno]

\* the existence checks of a resolver over the branches it probed
Probes(t, probed, fusepath, fs) ==
  [i \in 1..Len(probed) |->
     IF exists(probed[i], fusepath, fs)
     THEN Call(t, "lstat", path_make(probed[i], fusepath), 0, 0)
     ELSE Call(t, "lstat", path_make(probed[i], fusepath), -1, ENOENT)]

(***************************************************************************)
(* Two's complement bitwise AND of ints.                                   *)
(***************************************************************************)
RECURSIVE BitAnd(_,_)
BitAnd(x, y) ==
  IF x = 0 \/ y = 0 THEN 0
  ELSE IF x = -1 THEN y
  ELSE IF y = -1 THEN x
  ELSE (x % 2) * (y % 2) + 2 * BitAnd(x \div 2, y \div 2)

(***************************************************************************)
(* rmdir.cpp                                                               *)
(***************************************************************************)
\* the scopes a platform's credentials can have
CredentialScopes == {"thread", "process"}

\* an identity applied by thread t: to t alone where credentials are per thread,
\* to every thread where they are the process's
ugid_apply(t, id) ==
  IF credentials = "thread" THEN [ugid EXCEPT ![t] = id] ELSE [u \in Threads |-> id]

\* ugid scope object destroyed: the saved identity is applied again
ugid_reset(t) == ugid' = ugid_apply(t, guard[t])

\* mutant: the last ::rmdir result overwrites the accumulator (rv = ...)
rmdir_accumulate_last(rv, r) == r

\* rmdir.cpp:58  rv &= ::rmdir(...)
rmdir_accumulate(rv, r) == BitAnd(rv, r)

\* mutant: the first failure's errno is kept (error is set once)
rmdir_error_first(rv, error, errno) == IF rv = -1 /\ error = 0 THEN errno ELSE error

\* rmdir.cpp:59-60  if(rv == -1) error = errno
rmdir_error(rv, error, errno) == IF rv = -1 THEN errno ELSE error

\* rmdir.cpp:63
rmdir_result(rv, error) == IF rv = -1 THEN -error ELSE 0

\* mutant: the empty candidate list is not checked
rmdir_notfound_unchecked(paths) == FALSE

\* rmdir.cpp:50  paths.empty()
rmdir_notfound(paths) == paths = <<>>

\* mutant: the control file is not recognised
rmdir_is_controlfile_never(fusepath, controlfile) == FALSE

\* rmdir.cpp:76  fusepath == config.controlfile
rmdir_is_controlfile(fusepath, controlfile) == fusepath = controlfile

\* mutant: the loop ends at the first ::rmdir that succeeded
rmdir_more_untilok(f) == f.i <= Len(f.paths) /\ f.rv = -1

\* rmdir.cpp:55-56  i != ei
rmdir_more(f) == f.i <= Len(f.paths)

\* mergerfs::rmdir::rmdir, lines 71-74: a request arrives on an idle worker; the
\* SetResetGuard saves the thread's identity and applies the caller's
rmdir(t, callers) ==
  /\ ~crashed
  /\ pc[t] = "idle"
  /\ \E fusepath \in FusePaths, caller \in callers :
       /\ op' = [op EXCEPT ![t] = [kind |-> "rmdir", fusepath |-> fusepath,
                                    attrname |-> <<>>, count |-> 0, caller |-> caller]]
       /\ ugid' = ugid_apply(t, caller)
  /\ guard' = [guard EXCEPT ![t] = ugid[t]]
  /\ ugid0' = [ugid0 EXCEPT ![t] = ugid[t]]
  /\ pc' = [pc EXCEPT ![t] = "rmdir_check"]
  /\ UNCHANGED << credentials, config, srcmountslock, reconf, present, crashed, frame, buf,
                  result, calls, seen, oob >>

\* mutant: the early return leaves the caller's identity applied
rmdir_controlfile_noreset(t) ==
  /\ ~crashed
  /\ pc[t] = "rmdir_check"
  /\ rmdir_is_controlfile(op[t].fusepath, config.controlfile)
  /\ result' = [result EXCEPT ![t] = -ENOTDIR]
  /\ pc' = [pc EXCEPT ![t] = "done"]
  /\ UNCHANGED << credentials, config, srcmountslock, reconf, present, crashed, op, frame,
                  ugid, guard, buf, calls, seen, oob, ugid0 >>

\* lines 76-77: the control file is never removed
rmdir_controlfile(t) ==
  /\ ~crashed
  /\ pc[t] = "rmdir_check"
  /\ rmdir_is_controlfile(op[t].fusepath, config.controlfile)
  /\ result' = [result EXCEPT ![t] = -ENOTDIR]
  /\ ugid_reset(t)
  /\ pc' = [pc EXCEPT ![t] = "done"]
  /\ UNCHANGED << credentials, config, srcmountslock, reconf, present, crashed, op, frame,
                  guard, buf, calls, seen, oob, ugid0 >>

\* lines 79-81 and _rmdir lines 49-54: the Action policy resolves the candidates
rmdir_search(t) ==
  /\ ~crashed
  /\ pc[t] = "rmdir_check"
  /\ ~rmdir_is_controlfile(op[t].fusepath, config.controlfile)
  /\ LET r == ActionFunc(config.policies[FF_rmdir], config.srcmounts,
                         op[t].fusepath, present)
     IN /\ seen' = [seen EXCEPT ![t] = @ \cup {config.srcmounts}]
        /\ calls' = [calls EXCEPT ![t] = @ \o Probes(t, r.probed, op[t].fusepath, present)]
        /\ IF rmdir_notfound(r.paths)
           THEN /\ result' = [result EXCEPT ![t] = -ENOENT]
                /\ ugid_reset(t)
                /\ pc' = [pc EXCEPT ![t] = "done"]
                /\ frame' = [frame EXCEPT ![t].resolved = TRUE]
           ELSE /\ frame' = [frame EXCEPT ![t].paths = r.paths, ![t].i = 1,
                                           ![t].rv = -1, ![t].error = 0,
                                           ![t].resolved = TRUE]
                /\ pc' = [pc EXCEPT ![t] = "rmdir_loop"]
                /\ UNCHANGED << result, ugid >>
  /\ UNCHANGED << credentials, config, srcmountslock, reconf, present, crashed, op, guard,
                  buf, oob, ugid0 >>

\* _rmdir lines 55-61: one iteration, one ::rmdir
rmdir_loop(t) ==
  /\ ~crashed
  /\ pc[t] = "rmdir_loop"
  /\ rmdir_more(frame[t])
  /\ LET p == frame[t].paths[frame[t].i]
     IN \E out \in sys_rmdir(p.base, op[t].fusepath, present) :
          LET rv == rmdir_accumulate(frame[t].rv, out.rv)
              en == IF out.rv = -1 THEN out.errno ELSE frame[t].errno
          IN /\ present' = out.fs
             /\ calls' = [calls EXCEPT ![t] = Append(@, Call(t, "rmdir", p.full, out.rv, out.errno))]
             /\ frame' = [frame EXCEPT ![t].rv = rv, ![t].errno = en,
                                       ![t].error = rmdir_error(rv, frame[t].error, en),
                                       ![t].i = @ + 1]
  /\ UNCHANGED << credentials, config, srcmountslock, reconf, crashed, pc, op, ugid, guard,
                  buf, result, seen, oob, ugid0 >>

\* _rmdir line 63, and the SetResetGuard destroyed on return
rmdir_return(t) ==
  /\ ~crashed
  /\ pc[t] = "rmdir_loop"
  /\ ~rmdir_more(frame[t])
  /\ result' = [result EXCEPT ![t] = rmdir_result(frame[t].rv, frame[t].error)]
  /\ ugid_reset(t)
  /\ pc' = [pc EXCEPT ![t] = "done"]
  /\ UNCHANGED << credentials, config, srcmountslock, reconf, present, crashed, op, frame,
                  guard, buf, calls, seen, oob, ugid0 >>

(***************************************************************************)
(* getxattr.cpp: the control file's values.                                *)
(***************************************************************************)
\* MERGERFS_VERSION
Version == <<"2",".","1","6",".","1">>
\* getpid()
Pid == 4242

\* an element read out of the range of a vector reads arbitrary bytes g
At(attr, i, g) == IF i <= Len(attr) THEN attr[i] ELSE g

\* what a read out of range can do: fault, or read one of these as the segment
Garbage == { s_user, s_mergerfs, s_basepath, s_relpath, s_fullpath, s_allpaths, <<Poison>> }
Fault == <<"fault">>
UB == {Fault} \cup Garbage
\* the choices open to a read: those of UB when it is out of range
UBIf(isoob) == IF isoob THEN UB ELSE {<<Poison>>}

\* mutant: FuseFunc::invalid is not checked, an unknown name reads the first entry
fusefunc_policy_unchecked(cfg, name) ==
  LET fusefunc == FuseFunc_find(name)
  IN cfg.policies[IF fusefunc # 0 THEN fusefunc ELSE 1]

\* _getxattr_controlfile_fusefunc_policy, lines 56-67
fusefunc_policy(cfg, name) ==
  LET fusefunc == FuseFunc_find(name)
  IN IF fusefunc # 0 THEN cfg.policies[fusefunc] ELSE <<>>

\* mutant: the duplicates are not erased
category_policy_nounique(cfg, name) ==
  LET cat == Category_find(name)
      idx == SelectSeq([i \in 1..Len(FuseFuncs) |-> i],
                       LAMBDA i : FuseFuncs[i].category = cat)
      policies == [k \in 1..Len(idx) |-> cfg.policies[idx[k]]]
  IN IF cat # <<>> THEN join(sort(policies), ",") ELSE <<>>

\* _getxattr_controlfile_category_policy, lines 69-92
category_policy(cfg, name) ==
  LET cat == Category_find(name)
      idx == SelectSeq([i \in 1..Len(FuseFuncs) |-> i],
                       LAMBDA i : FuseFuncs[i].category = cat)
      policies == [k \in 1..Len(idx) |-> cfg.policies[idx[k]]]
  IN IF cat # <<>> THEN join(unique(sort(policies)), ",") ELSE <<>>

\* _getxattr_controlfile_bool, lines 126-132
controlfile_bool(b) == IF b THEN s_true ELSE s_false

\* _getxattr_controlfile_policies, lines 134-144
RECURSIVE policies_from(_,_)
policies_from(i, acc) ==
  IF i > Len(Policies) THEN acc
  ELSE policies_from(i + 1, acc \o <<",">> \o Policies[i])

\* mutant: the loop starts one entry too far (i += 2 for i++)
controlfile_policies_skip == policies_from(3, Policies[1])

controlfile_policies == policies_from(2, Policies[1])

\* the switch of _getxattr_controlfile, lines 181-212
controlfile_attrvalue(cfg, attr) ==
  IF Len(attr) = 3
  THEN IF attr[3] = s_srcmounts THEN join(cfg.srcmounts, ":")
       ELSE IF attr[3] = s_minfreespace THEN Decimal(cfg.minfreespace)
       ELSE IF attr[3] = s_maxsize THEN Decimal(cfg.maxsize)
       ELSE IF attr[3] = s_moveonenospc THEN controlfile_bool(cfg.moveonenospc)
       ELSE IF attr[3] = s_dropcacheonclose THEN controlfile_bool(cfg.dropcacheonclose)
       ELSE IF attr[3] = s_symlinkify THEN controlfile_bool(cfg.symlinkify)
       ELSE IF attr[3] = s_symlinkify_timeout THEN Decimal(cfg.symlinkify_timeout)
       ELSE IF attr[3] = s_policies THEN controlfile_policies
       ELSE IF attr[3] = s_version THEN Version
       ELSE IF attr[3] = s_pid THEN Decimal(Pid)
       ELSE <<>>
  ELSE IF Len(attr) = 4
  THEN IF attr[3] = s_category THEN category_policy(cfg, attr[4])
       ELSE IF attr[3] = s_func THEN fusefunc_policy(cfg, attr[4])
       ELSE <<>>
  ELSE <<>>

\* mutant: no size probe, a zero size is a buffer too small
controlfile_reply_noprobe(attrvalue, count) ==
  IF attrvalue = <<>> THEN [rv |-> -ENOATTR, copy |-> FALSE]
  ELSE IF count < Len(attrvalue) THEN [rv |-> -ERANGE, copy |-> FALSE]
  ELSE [rv |-> Len(attrvalue), copy |-> TRUE]

\* _getxattr_controlfile lines 214-227: the reply for a computed value
controlfile_reply(attrvalue, count) ==
  IF attrvalue = <<>> THEN [rv |-> -ENOATTR, copy |-> FALSE]
  ELSE IF count = 0 THEN [rv |-> Len(attrvalue), copy |-> FALSE]
  ELSE IF count < Len(attrvalue) THEN [rv |-> -ERANGE, copy |-> FALSE]
  ELSE [rv |-> Len(attrvalue), copy |-> TRUE]

\* _getxattr_controlfile lines 177-179: the name passes the prefix check
controlfile_prefix_ok(attr, g) ==
  ~((At(attr, 1, g) # s_user) \/ (At(attr, 2, g) # s_mergerfs))

\* the prefix check indexes attr[0], and attr[1] unless attr[0] already differs
controlfile_oob(attr) ==
  \/ Len(attr) = 0
  \/ Len(attr) = 1 /\ attr[1] = s_user

\* _getxattr_controlfile, lines 166-228; ub settles an out-of-range read
getxattr_controlfile_value(cfg, attrname, count, ub) ==
  LET attr == split(attrname, ".")
      isoob == controlfile_oob(attr)
  IN IF isoob /\ ub = Fault
     THEN [fault |-> TRUE, oob |-> TRUE, rv |-> 0, copy |-> FALSE, attrvalue |-> <<>>]
     ELSE IF ~controlfile_prefix_ok(attr, ub)
     THEN [fault |-> FALSE, oob |-> isoob, rv |-> -ENOATTR, copy |-> FALSE,
           attrvalue |-> <<>>]
     ELSE LET attrvalue == controlfile_attrvalue(cfg, attr)
              reply == controlfile_reply(attrvalue, count)
          IN [fault |-> FALSE, oob |-> isoob, rv |-> reply.rv, copy |-> reply.copy,
              attrvalue |-> attrvalue]

\* memcpy(buf, src, len)
memcpy(b, src, len) == [i \in 1..Len(b) |-> IF i <= len THEN src[i] ELSE b[i]]

\* mergerfs::fuse::getxattr lines 330-337: a request for the control file
getxattr_controlfile(t, names, counts, callers) ==
  /\ ~crashed
  /\ pc[t] = "idle"
  /\ \E attrname \in names, count \in counts, caller \in callers :
     \E ub \in UBIf(controlfile_oob(split(attrname, "."))) :
       LET r == getxattr_controlfile_value(config, attrname, count, ub)
       IN /\ op' = [op EXCEPT ![t] = [kind |-> "getxattr", fusepath |-> config.controlfile,
                                      attrname |-> attrname, count |-> count,
                                      caller |-> caller]]
          /\ oob' = [oob EXCEPT ![t] = r.oob]
          /\ crashed' = r.fault
          /\ frame' = [frame EXCEPT ![t].attrvalue = r.attrvalue,
                                    ![t].served = "controlfile"]
          /\ seen' = [seen EXCEPT ![t] =
                        IF split(attrname, ".") = <<s_user, s_mergerfs, s_srcmounts>>
                        THEN {config.srcmounts} ELSE {}]
          /\ buf' = [buf EXCEPT ![t] =
                       IF r.copy THEN memcpy(FreshBuf, r.attrvalue, Len(r.attrvalue))
                       ELSE FreshBuf]
          /\ result' = [result EXCEPT ![t] = IF r.fault THEN NoResult ELSE r.rv]
          /\ pc' = [pc EXCEPT ![t] = IF r.fault THEN "fault" ELSE "done"]
  /\ ugid0' = [ugid0 EXCEPT ![t] = ugid[t]]
  /\ UNCHANGED << credentials, config, srcmountslock, reconf, present, ugid, guard, calls >>

(***************************************************************************)
(* getxattr.cpp: ordinary paths.                                           *)
(***************************************************************************)
\* segments that are no key, and a namespace other than "user"
s_bogus == <<"b","o","g","u","s">>
s_trusted == <<"t","r","u","s","t","e","d">>
s_security == <<"s","e","c","u","r","i","t","y">>

\* "user.foo", an extended attribute the underlying entries carry; they carry
\* "user.mergerfs.bogus" as well
s_user_foo == <<"u","s","e","r",".","f","o","o">>

\* the attribute's value on each branch's entry
Xattr(base, attrname) ==
  IF attrname = s_user_foo
  THEN IF base = BranchA THEN <<"v","1">> ELSE <<"v","a","l","2","2">>
  ELSE IF attrname = s_prefix \o s_bogus THEN <<"x">>
  ELSE <<>>

\* the longest attribute name lgetxattr(2) takes (XATTR_NAME_MAX)
XattrNameMax == 255

s_gnu == <<"g","n","u">>
s_posix_acl_access ==
  <<"s","y","s","t","e","m",".","p","o","s","i","x","_","a","c","l","_","a","c","c","e","s","s">>
s_posix_acl_default ==
  <<"s","y","s","t","e","m",".","p","o","s","i","x","_","a","c","l","_","d","e","f","a","u","l","t">>

\* the attribute namespaces the store has a handler for: any name under them
XattrNamespaces ==
  { s_user \o <<".">>, s_trusted \o <<".">>, s_security \o <<".">>, s_gnu \o <<".">> }

\* the attribute names the store has a handler for by their whole name
XattrNames == { s_posix_acl_access, s_posix_acl_default }

\* a handler takes the name: it lies under a namespace, or it is a handled name
xattr_resolves(attrname) ==
  \/ \E ns \in XattrNamespaces : isprefix(attrname, ns)
  \/ attrname \in XattrNames

\* fs::lgetxattr on base + fusepath, as lgetxattr(2) does: the name is taken
\* first (empty or longer than XattrNameMax is ERANGE), then the path is looked
\* up, then the name's handler is resolved (none is EOPNOTSUPP, a namespace with
\* nothing after it is EINVAL), then the attribute is read
fs_lgetxattr(base, fusepath, attrname, size, fs) ==
  LET value == Xattr(base, attrname)
  IN IF attrname = <<>> \/ Len(attrname) > XattrNameMax
     THEN [rv |-> -1, errno |-> ERANGE, copy |-> FALSE, value |-> <<>>]
     ELSE IF ~exists(base, fusepath, fs) THEN [rv |-> -1, errno |-> ENOENT, copy |-> FALSE, value |-> <<>>]
     ELSE IF attrname \in XattrNamespaces
     THEN [rv |-> -1, errno |-> EINVAL, copy |-> FALSE, value |-> <<>>]
     ELSE IF ~xattr_resolves(attrname)
     THEN [rv |-> -1, errno |-> EOPNOTSUPP, copy |-> FALSE, value |-> <<>>]
     ELSE IF value = <<>> THEN [rv |-> -1, errno |-> ENOATTR, copy |-> FALSE, value |-> <<>>]
     ELSE IF size = 0 THEN [rv |-> Len(value), errno |-> 0, copy |-> FALSE, value |-> value]
     ELSE IF size < Len(value) THEN [rv |-> -1, errno |-> ERANGE, copy |-> FALSE, value |-> value]
     ELSE [rv |-> Len(value), errno |-> 0, copy |-> TRUE, value |-> value]

\* _lgetxattr, lines 42-54
lgetxattr(base, fusepath, attrname, size, fs) ==
  LET r == fs_lgetxattr(base, fusepath, attrname, size, fs)
  IN [rv |-> IF r.rv = -1 THEN -r.errno ELSE r.rv, copy |-> r.copy,
      attrvalue |-> r.value, served |-> "passthrough", oob |-> FALSE, fault |-> FALSE,
      sys |-> r]

\* mutant: a buffer of exactly the value's length is refused (>= for >)
getxattr_from_string_offbyone(destbufsize, src) ==
  IF destbufsize = 0 THEN [rv |-> Len(src), copy |-> FALSE]
  ELSE IF Len(src) >= destbufsize THEN [rv |-> -ERANGE, copy |-> FALSE]
  ELSE [rv |-> Len(src), copy |-> TRUE]

\* _getxattr_from_string, lines 230-247
getxattr_from_string(destbufsize, src) ==
  IF destbufsize = 0 THEN [rv |-> Len(src), copy |-> FALSE]
  ELSE IF Len(src) > destbufsize THEN [rv |-> -ERANGE, copy |-> FALSE]
  ELSE [rv |-> Len(src), copy |-> TRUE]

\* mutant: the enumeration stops at the first branch holding the entry
allpaths_value_first(srcmounts, fusepath, fs) ==
  join(SubSeq(findallfiles(srcmounts, fusepath, fs), 1, 1), NUL)

\* _getxattr_user_mergerfs_allpaths lines 256-261: the value
allpaths_value(srcmounts, fusepath, fs) == join(findallfiles(srcmounts, fusepath, fs), NUL)

\* _getxattr_user_mergerfs, lines 266-290; ub settles an out-of-range attr[2]
getxattr_user_mergerfs(basepath, fusepath, fullpath, srcmounts, attrname, count, fs, ub) ==
  LET attr == split(attrname, ".")
      isoob == Len(attr) < 3
      key == At(attr, 3, ub)
      diag(value) ==
        LET reply == getxattr_from_string(count, value)
        IN [rv |-> reply.rv, copy |-> reply.copy, attrvalue |-> value,
            served |-> "diag", oob |-> isoob, fault |-> FALSE]
  IN IF isoob /\ ub = Fault
     THEN [rv |-> 0, copy |-> FALSE, attrvalue |-> <<>>, served |-> "none",
           oob |-> TRUE, fault |-> TRUE]
     ELSE IF key = s_basepath THEN diag(basepath)
     ELSE IF key = s_relpath THEN diag(fusepath)
     ELSE IF key = s_fullpath THEN diag(fullpath)
     ELSE IF key = s_allpaths THEN diag(allpaths_value(srcmounts, fusepath, fs))
     ELSE [rv |-> -ENOATTR, copy |-> FALSE, attrvalue |-> <<>>, served |-> "none",
           oob |-> isoob, fault |-> FALSE]

\* ugid::Set constructed: the caller's identity applied, the previous one kept
ugid_set(t, caller) ==
  /\ guard' = [guard EXCEPT ![t] = ugid[t]]
  /\ ugid' = ugid_apply(t, caller)

\* rwlock::ReadGuard destroyed
read_unlock(t) ==
  srcmountslock' = [srcmountslock EXCEPT !.readers = @ \ {t}]

\* mergerfs::fuse::getxattr lines 330-339: a request for an ordinary path
getxattr(t, names, counts, callers) ==
  /\ ~crashed
  /\ pc[t] = "idle"
  /\ \E fusepath \in FusePaths \ {config.controlfile}, attrname \in names,
        count \in counts, caller \in callers :
       /\ op' = [op EXCEPT ![t] = [kind |-> "getxattr", fusepath |-> fusepath,
                                    attrname |-> attrname, count |-> count,
                                    caller |-> caller]]
       /\ buf' = [buf EXCEPT ![t] = FreshBuf]
       /\ ugid_set(t, caller)
  /\ ugid0' = [ugid0 EXCEPT ![t] = ugid[t]]
  /\ pc' = [pc EXCEPT ![t] = "getxattr_lock"]
  /\ UNCHANGED << credentials, config, srcmountslock, reconf, present, crashed, frame, result,
                  calls, seen, oob >>

\* line 340: rwlock::ReadGuard on config.srcmountslock
getxattr_readlock(t) ==
  /\ ~crashed
  /\ pc[t] = "getxattr_lock"
  /\ ~srcmountslock.writer
  /\ srcmountslock' = [srcmountslock EXCEPT !.readers = @ \cup {t}]
  /\ pc' = [pc EXCEPT ![t] = "getxattr_search"]
  /\ UNCHANGED << credentials, config, reconf, present, crashed, op, frame, ugid, guard, buf,
                  result, calls, seen, oob, ugid0 >>

\* mutant: a failed resolution is answered like an unknown key
getxattr_search_error_noattr(errno) == -ENOATTR

\* _getxattr line 308: return -errno
getxattr_search_error(errno) == -errno

\* _getxattr lines 306-310: the Search policy picks the branch; when it fails the
\* value to return is -errno, and the scope objects are destroyed next
getxattr_search(t) ==
  /\ ~crashed
  /\ pc[t] = "getxattr_search"
  /\ LET r == SearchFunc(config.policies[FF_getxattr], config.srcmounts,
                         op[t].fusepath, present)
     IN /\ seen' = [seen EXCEPT ![t] = @ \cup {config.srcmounts}]
        /\ calls' = [calls EXCEPT ![t] = @ \o Probes(t, r.probed, op[t].fusepath, present)]
        /\ IF r.rv = -1
           THEN /\ frame' = [frame EXCEPT ![t].rv = r.rv, ![t].errno = r.errno,
                                           ![t].resolved = TRUE,
                                           ![t].ret = getxattr_search_error(r.errno)]
                /\ pc' = [pc EXCEPT ![t] = "getxattr_unlock"]
           ELSE /\ frame' = [frame EXCEPT ![t].rv = r.rv,
                                           ![t].resolved = TRUE,
                                           ![t].paths = r.basepaths,
                                           ![t].basepath = r.basepaths[1],
                                           ![t].fullpath = path_make(r.basepaths[1],
                                                                     op[t].fusepath)]
                /\ pc' = [pc EXCEPT ![t] = "getxattr_attr"]
  /\ UNCHANGED << credentials, config, srcmountslock, reconf, present, crashed, op, ugid, guard,
                  buf, result, oob, ugid0 >>

\* _getxattr lines 312-317: the value to return is computed
getxattr_attr(t) ==
  /\ ~crashed
  /\ pc[t] = "getxattr_attr"
  /\ \E ub \in UBIf(isprefix(op[t].attrname, s_prefix)
                       /\ Len(split(op[t].attrname, ".")) < 3) :
       LET mine == isprefix(op[t].attrname, s_prefix)
           r == IF mine
                THEN getxattr_user_mergerfs(frame[t].basepath, op[t].fusepath,
                                            frame[t].fullpath, config.srcmounts,
                                            op[t].attrname, op[t].count, present, ub)
                ELSE lgetxattr(frame[t].basepath, op[t].fusepath, op[t].attrname,
                               op[t].count, present)
           allp == mine /\ r.served = "diag" /\ At(split(op[t].attrname, "."), 3, ub) = s_allpaths
       IN /\ frame' = [frame EXCEPT ![t].rv = r.rv, ![t].attrvalue = r.attrvalue,
                                    ![t].served = r.served, ![t].ret = r.rv]
          /\ oob' = [oob EXCEPT ![t] = r.oob]
          /\ crashed' = r.fault
          /\ buf' = [buf EXCEPT ![t] =
                       IF r.copy THEN memcpy(@, r.attrvalue, Len(r.attrvalue)) ELSE @]
          /\ calls' = [calls EXCEPT ![t] =
                         IF ~mine THEN Append(@, Call(t, "lgetxattr", frame[t].fullpath,
                                                      r.sys.rv, r.sys.errno))
                         ELSE IF allp THEN @ \o Probes(t, config.srcmounts, op[t].fusepath, present)
                         ELSE @]
          /\ seen' = [seen EXCEPT ![t] = IF allp THEN @ \cup {config.srcmounts} ELSE @]
          /\ pc' = [pc EXCEPT ![t] = IF r.fault THEN "fault" ELSE "getxattr_unlock"]
  /\ UNCHANGED << credentials, config, srcmountslock, reconf, present, op, ugid, guard, result,
                  ugid0 >>

\* mergerfs::fuse::getxattr returns: the ReadGuard, declared last (line 340), is
\* destroyed first
getxattr_unlock(t) ==
  /\ ~crashed
  /\ pc[t] = "getxattr_unlock"
  /\ read_unlock(t)
  /\ pc' = [pc EXCEPT ![t] = "getxattr_reset"]
  /\ UNCHANGED << credentials, config, reconf, present, crashed, op, frame, ugid, guard, buf,
                  result, calls, seen, oob, ugid0 >>

\* then the ugid::Set (line 339) is destroyed, and the caller gets the value
getxattr_reset(t) ==
  /\ ~crashed
  /\ pc[t] = "getxattr_reset"
  /\ ugid_reset(t)
  /\ result' = [result EXCEPT ![t] = frame[t].ret]
  /\ pc' = [pc EXCEPT ![t] = "done"]
  /\ UNCHANGED << credentials, config, srcmountslock, reconf, present, crashed, op, frame, guard,
                  buf, calls, seen, oob, ugid0 >>

(***************************************************************************)
(* The request is answered: the worker is idle again.                      *)
(***************************************************************************)
Return(t) ==
  /\ ~crashed
  /\ pc[t] = "done"
  /\ pc' = [pc EXCEPT ![t] = "idle"]
  /\ op' = [op EXCEPT ![t] = Op0]
  /\ frame' = [frame EXCEPT ![t] = Frame0]
  /\ buf' = [buf EXCEPT ![t] = <<>>]
  /\ result' = [result EXCEPT ![t] = NoResult]
  /\ calls' = [calls EXCEPT ![t] = <<>>]
  /\ seen' = [seen EXCEPT ![t] = {}]
  /\ oob' = [oob EXCEPT ![t] = FALSE]
  /\ UNCHANGED << credentials, config, srcmountslock, reconf, present, crashed, ugid, guard, ugid0 >>

(***************************************************************************)
(* Reconfiguration: the branch list replaced under the write lock.         *)
(***************************************************************************)
\* rwlock::WriteGuard on config.srcmountslock
reconfig_lock ==
  /\ ~crashed
  /\ reconf.pc = "idle"
  /\ ~srcmountslock.writer
  /\ srcmountslock.readers = {}
  /\ \E new \in Snapshots \ {config.srcmounts} :
       reconf' = [pc |-> "copy", new |-> new, k |-> 1]
  /\ srcmountslock' = [srcmountslock EXCEPT !.writer = TRUE]
  /\ UNCHANGED << credentials, config, present, crashed, pc, op, frame, ugid, guard, buf,
                  result, calls, seen, oob, ugid0 >>

\* the vector assigned element by element
reconfig_copy ==
  /\ ~crashed
  /\ reconf.pc = "copy"
  /\ reconf.k <= Len(reconf.new)
  /\ config' = [config EXCEPT !.srcmounts =
                  IF reconf.k <= Len(@) THEN [@ EXCEPT ![reconf.k] = reconf.new[reconf.k]]
                  ELSE Append(@, reconf.new[reconf.k])]
  /\ reconf' = [reconf EXCEPT !.k = @ + 1]
  /\ UNCHANGED << credentials, srcmountslock, present, crashed, pc, op, frame, ugid, guard, buf,
                  result, calls, seen, oob, ugid0 >>

\* the surplus elements erased, the WriteGuard destroyed
reconfig_unlock ==
  /\ ~crashed
  /\ reconf.pc = "copy"
  /\ reconf.k > Len(reconf.new)
  /\ config' = [config EXCEPT !.srcmounts = SubSeq(@, 1, Len(reconf.new))]
  /\ reconf' = [pc |-> "idle", new |-> <<>>, k |-> 0]
  /\ srcmountslock' = [srcmountslock EXCEPT !.writer = FALSE]
  /\ UNCHANGED << credentials, present, crashed, pc, op, frame, ugid, guard, buf, result, calls,
                  seen, oob, ugid0 >>

(***************************************************************************)
(* Initial states and specifications.                                      *)
(***************************************************************************)
\* config.policies, indexed as FuseFuncs (chmod, getxattr, mkdir, rmdir): the
\* assignments the single-worker specification starts with
StartAssignments ==
  { <<s_all, s_ff, s_ff, s_all>>, <<s_ff, s_mfs, s_mfs, s_all>>, <<s_all, s_mfs, s_ff, s_ff>> }

\* the global tunables
DefaultTunables ==
  [minfreespace |-> 0, maxsize |-> 0, moveonenospc |-> FALSE,
   dropcacheonclose |-> FALSE, symlinkify |-> FALSE, symlinkify_timeout |-> 3600]

Tunables ==
  { DefaultTunables,
    [minfreespace |-> 1048576, maxsize |-> 65536, moveonenospc |-> TRUE,
     dropcacheonclose |-> TRUE, symlinkify |-> TRUE, symlinkify_timeout |-> 0] }

Config(srcmounts, tun, policies) ==
  [ srcmounts |-> srcmounts, minfreespace |-> tun.minfreespace, maxsize |-> tun.maxsize,
    moveonenospc |-> tun.moveonenospc, dropcacheonclose |-> tun.dropcacheonclose,
    symlinkify |-> tun.symlinkify, symlinkify_timeout |-> tun.symlinkify_timeout,
    policies |-> policies, controlfile |-> ControlFile ]

\* the identity the driver's threads run under between requests
DriverIds == { Root, <<500, 500>> }

\* the workers, the lock and the reconfiguration thread before any request
InitThreads(ids) ==
  /\ srcmountslock = [readers |-> {}, writer |-> FALSE]
  /\ reconf = [pc |-> "idle", new |-> <<>>, k |-> 0]
  /\ crashed = FALSE
  /\ pc = [t \in Threads |-> "idle"]
  /\ op = [t \in Threads |-> Op0]
  /\ frame = [t \in Threads |-> Frame0]
  /\ \E id \in ids : ugid = [t \in Threads |-> id]
  /\ guard = ugid
  /\ ugid0 = ugid
  /\ buf = [t \in Threads |-> <<>>]
  /\ result = [t \in Threads |-> NoResult]
  /\ calls = [t \in Threads |-> <<>>]
  /\ seen = [t \in Threads |-> {}]
  /\ oob = [t \in Threads |-> FALSE]

InitWorkers(ids) ==
  /\ present \in SUBSET Branches
  /\ InitThreads(ids)

\* attribute names and sizes of the concurrent specification
ConcNames == { s_prefix \o s_srcmounts, s_prefix \o s_allpaths, s_user_foo }
ConcCounts == {BufCap}

\* Concurrent workers and a reconfiguration thread
Init ==
  /\ credentials = "thread"
  /\ InitWorkers({Root})
  /\ \E srcmounts \in Snapshots :
       config = Config(srcmounts, DefaultTunables, <<s_all, s_ff, s_ff, s_all>>)

Next ==
  \/ \E t \in Threads :
       \/ rmdir(t, {CallerOf(t)})
       \/ rmdir_controlfile(t)
       \/ rmdir_search(t)
       \/ rmdir_loop(t)
       \/ rmdir_return(t)
       \/ getxattr_controlfile(t, ConcNames, ConcCounts, {CallerOf(t)})
       \/ getxattr(t, ConcNames, ConcCounts, {CallerOf(t)})
       \/ getxattr_readlock(t)
       \/ getxattr_search(t)
       \/ getxattr_attr(t)
       \/ getxattr_unlock(t)
       \/ getxattr_reset(t)
       \/ Return(t)
  \/ reconfig_lock
  \/ reconfig_copy
  \/ reconfig_unlock

Spec == Init /\ [][Next]_vars

(***************************************************************************)
(* One worker serving one request at a time, over every attribute name,    *)
(* buffer size, branch list and configuration of the model.                *)
(***************************************************************************)

\* names under "user.mergerfs." the control file serves
ScalarKeys ==
  { s_srcmounts, s_minfreespace, s_maxsize, s_moveonenospc, s_dropcacheonclose,
    s_symlinkify, s_symlinkify_timeout, s_policies, s_version, s_pid }

ValidControlNames ==
  { s_prefix \o k : k \in ScalarKeys }
    \cup { s_prefix \o s_category \o <<".">> \o c : c \in Categories }
    \cup { s_prefix \o s_func \o <<".">> \o FuseFuncs[i].name : i \in 1..Len(FuseFuncs) }

\* the per-path diagnostic names
DiagNames == { s_prefix \o k : k \in {s_basepath, s_relpath, s_fullpath, s_allpaths} }

\* names that are no key: outside the prefix, or unknown under it
OtherNames ==
  { <<>>, s_user, s_user \o <<".">>, s_user \o <<".">> \o s_mergerfs, s_prefix,
    s_trusted \o <<".">> \o s_mergerfs \o <<".">> \o s_pid, s_user_foo,
    s_prefix \o s_bogus, s_prefix \o s_bogus \o <<".">> \o s_rmdir,
    s_prefix \o s_category \o <<".">> \o s_bogus,
    s_prefix \o s_func \o <<".">> \o s_bogus,
    s_prefix \o s_func \o <<".">> \o s_rmdir \o <<".">> \o s_bogus }

AttrNames == ValidControlNames \cup DiagNames \cup OtherNames

SeqThread == "t1"

InitSeq ==
  /\ credentials = "thread"
  /\ InitWorkers(DriverIds)
  /\ \E srcmounts \in BranchLists, tun \in Tunables, policies \in StartAssignments :
       config = Config(srcmounts, tun, policies)

NextSeq ==
  \/ rmdir(SeqThread, {CallerOf(SeqThread)})
  \/ rmdir_controlfile(SeqThread)
  \/ rmdir_search(SeqThread)
  \/ rmdir_loop(SeqThread)
  \/ rmdir_return(SeqThread)
  \/ getxattr_controlfile(SeqThread, AttrNames, Counts, {CallerOf(SeqThread)})
  \/ getxattr(SeqThread, AttrNames, Counts, {CallerOf(SeqThread)})
  \/ getxattr_readlock(SeqThread)
  \/ getxattr_search(SeqThread)
  \/ getxattr_attr(SeqThread)
  \/ getxattr_unlock(SeqThread)
  \/ getxattr_reset(SeqThread)
  \/ Return(SeqThread)

SpecSeq == InitSeq /\ [][NextSeq]_vars

(***************************************************************************)
(* One worker reading attributes while the policies assigned to the        *)
(* functions are changed at runtime, between its calls.                    *)
(***************************************************************************)
\* the assignment the driver starts with: chmod all, getxattr ff, mkdir ff, rmdir all
DefaultAssignment == <<s_all, s_ff, s_ff, s_all>>

\* a runtime change of the policy assigned to one function
set_policy ==
  /\ ~crashed
  /\ \A t \in Threads : pc[t] = "idle"
  /\ \E f \in 1..Len(FuseFuncs), k \in 1..Len(Policies) :
       /\ config.policies[f] # Policies[k]
       /\ config' = [config EXCEPT !.policies[f] = Policies[k]]
  /\ UNCHANGED << credentials, srcmountslock, reconf, present, crashed, pc, op, frame, ugid,
                  guard, buf, result, calls, seen, oob, ugid0 >>

\* the names read: the policy keys of the control file, and on ordinary paths the
\* branch the Search policy chose
PolNames ==
  { s_prefix \o s_policies, s_prefix \o s_basepath, s_user_foo }
    \cup { s_prefix \o s_category \o <<".">> \o c : c \in Categories }
    \cup { s_prefix \o s_func \o <<".">> \o FuseFuncs[i].name : i \in 1..Len(FuseFuncs) }
PolCounts == {0, BufCap}

InitPol ==
  /\ credentials = "thread"
  /\ InitWorkers({Root})
  /\ \E srcmounts \in Snapshots :
       config = Config(srcmounts, DefaultTunables, DefaultAssignment)

NextPol ==
  \/ getxattr_controlfile(SeqThread, PolNames, PolCounts, {CallerOf(SeqThread)})
  \/ getxattr(SeqThread, PolNames, PolCounts, {CallerOf(SeqThread)})
  \/ getxattr_readlock(SeqThread)
  \/ getxattr_search(SeqThread)
  \/ getxattr_attr(SeqThread)
  \/ getxattr_unlock(SeqThread)
  \/ getxattr_reset(SeqThread)
  \/ Return(SeqThread)
  \/ set_policy

SpecPol == InitPol /\ [][NextPol]_vars

(***************************************************************************)
(* One worker removing directories; the thread is scheduled and each       *)
(* ::rmdir returns, so a step of the loop that can be taken is taken.      *)
(***************************************************************************)
NextRmdir ==
  \/ rmdir(SeqThread, {CallerOf(SeqThread)})
  \/ rmdir_controlfile(SeqThread)
  \/ rmdir_search(SeqThread)
  \/ rmdir_loop(SeqThread)
  \/ rmdir_return(SeqThread)
  \/ Return(SeqThread)

SpecRmdir ==
  /\ InitSeq
  /\ [][NextRmdir]_vars
  /\ WF_vars(rmdir_loop(SeqThread))
  /\ WF_vars(rmdir_return(SeqThread))

(***************************************************************************)
(* One worker removing a directory spread over three branches: the loop of  *)
(* _rmdir over candidate lists of up to three entries, in every order.     *)
(***************************************************************************)
BranchC == <<"/","c">>
Branches3 == Branches \cup {BranchC}

\* branch lists of three branches, in every order
BranchLists3 ==
  { l \in { <<a, b, c>> : a \in Branches3, b \in Branches3, c \in Branches3 } :
      l[1] # l[2] /\ l[1] # l[3] /\ l[2] # l[3] }

InitAcc ==
  /\ credentials = "thread"
  /\ present \in SUBSET Branches3
  /\ InitThreads({Root})
  /\ \E srcmounts \in BranchLists3 :
       config = Config(srcmounts, DefaultTunables, DefaultAssignment)

SpecAcc == InitAcc /\ [][NextRmdir]_vars

(***************************************************************************)
(* Two workers serving different callers, on a platform whose credentials  *)
(* are per thread or on one whose credentials are the process's.           *)
(***************************************************************************)
CredNames == { s_user_foo }

InitCred ==
  /\ credentials \in CredentialScopes
  /\ InitWorkers({Root})
  /\ config = Config(<<BranchA, BranchB>>, DefaultTunables, DefaultAssignment)

NextCred ==
  \E t \in Threads :
    \/ rmdir(t, {CallerOf(t)})
    \/ rmdir_controlfile(t)
    \/ rmdir_search(t)
    \/ rmdir_loop(t)
    \/ rmdir_return(t)
    \/ getxattr(t, CredNames, ConcCounts, {CallerOf(t)})
    \/ getxattr_readlock(t)
    \/ getxattr_search(t)
    \/ getxattr_attr(t)
    \/ getxattr_unlock(t)
    \/ getxattr_reset(t)
    \/ Return(t)

SpecCred == InitCred /\ [][NextCred]_vars

(***************************************************************************)
(* Properties.                                                             *)
(***************************************************************************)
\* the ::rmdir calls of t's operation, in the order issued
RmdirCalls(t) == SelectSeq(calls[t], LAMBDA c : c.sys = "rmdir")

\* the calls on the underlying entries: ::rmdir and lgetxattr
StoreCalls(t) == SelectSeq(calls[t], LAMBDA c : c.sys \in {"rmdir", "lgetxattr"})

IsRmdir(t) == op[t].kind = "rmdir"
IsGetxattr(t) == op[t].kind = "getxattr"
OnControlFile(t) == op[t].fusepath = ControlFile

\* C1: a directory-remove over a non-empty candidate list returns 0 when at least
\* one branch's rmdir succeeded, wherever it stood and whatever the others
\* returned, and otherwise the negated errno of the rmdir on the last candidate.
C1_RmdirAggregation ==
  \A t \in Threads :
    (pc[t] = "done" /\ IsRmdir(t) /\ frame[t].paths # <<>>) =>
      LET rc == RmdirCalls(t)
      IN /\ rc # <<>>
         /\ result[t] = IF \E i \in 1..Len(rc) : rc[i].rv = 0
                        THEN 0
                        ELSE -(rc[Len(rc)].errno)

\* a remove over two candidates whose first rmdir succeeded and whose last failed
C1_Witness ==
  \E t \in Threads :
    /\ pc[t] = "done" /\ IsRmdir(t)
    /\ Len(frame[t].paths) = 2
    /\ Len(RmdirCalls(t)) = 2
    /\ RmdirCalls(t)[1].rv = 0
    /\ RmdirCalls(t)[2].rv = -1
    /\ result[t] = 0

\* C2: when resolution yields no candidate (the Action resolver's list is empty in
\* directory-remove, the Search resolver fails in attribute-read) the operation
\* returns the not-found error at once: no rmdir, no lgetxattr, no buffer write.
C2_NoCandidate ==
  \A t \in Threads :
    (pc[t] = "done" /\ frame[t].resolved /\ frame[t].paths = <<>>) =>
      /\ result[t] = -ENOENT
      /\ StoreCalls(t) = <<>>
      /\ buf[t] \in {<<>>, FreshBuf}

\* a remove whose directory exists on a branch that is not in the branch list
C2_Witness ==
  \E t \in Threads :
    /\ pc[t] = "done" /\ IsRmdir(t)
    /\ frame[t].resolved /\ frame[t].paths = <<>>
    /\ present # {}
    /\ result[t] = -ENOENT

\* C3: a directory-remove of the control file returns -ENOTDIR whatever the branch
\* list and the assigned Action policy, without resolving and without any rmdir.
C3_ControlFileRejected ==
  \A t \in Threads :
    (pc[t] = "done" /\ IsRmdir(t) /\ OnControlFile(t)) =>
      /\ result[t] = -ENOTDIR
      /\ ~frame[t].resolved
      /\ calls[t] = <<>>

\* the control file's removal rejected with two branches configured and the
\* Action policy ff
C3_Witness ==
  \E t \in Threads :
    /\ pc[t] = "done" /\ IsRmdir(t) /\ OnControlFile(t)
    /\ result[t] = -ENOTDIR
    /\ Len(config.srcmounts) = 2
    /\ config.policies[FF_rmdir] = s_ff

\* C4: when an operation has returned, the worker's effective uid/gid are what they
\* were when it began, on every exit path of directory-remove and of
\* attribute-read on an ordinary path.
C4_IdentityRestored ==
  \A t \in Threads :
    (pc[t] = "done" /\ (IsRmdir(t) \/ (IsGetxattr(t) /\ ~OnControlFile(t)))) =>
      ugid[t] = ugid0[t]

\* an attribute read that ended in a range error, served as a caller other than
\* the identity the worker had before
C4_Witness ==
  \E t \in Threads :
    /\ pc[t] = "done" /\ IsGetxattr(t) /\ ~OnControlFile(t)
    /\ result[t] = -ERANGE
    /\ op[t].caller # ugid0[t]
    /\ ugid[t] = ugid0[t]

\* positions between an operation's candidate resolution and the return of its
\* last system call
AfterResolution == {"rmdir_loop", "getxattr_attr"}

\* C5: every dispatched operation holds the read side of srcmountslock from the
\* start of candidate resolution until its last system call has returned.
C5_ReadLockHeld ==
  \A t \in Threads :
    /\ pc[t] \in AfterResolution => t \in srcmountslock.readers
    /\ \A i \in 1..Len(calls[t]) : calls[t][i].locked

\* C6: every read of the branch list by an operation sees one installed list,
\* never a mixture of an old and a new one.
C6_WholeBranchList ==
  \A t \in Threads :
    /\ seen[t] \subseteq Snapshots
    /\ Cardinality(seen[t]) <= 1

\* positions at which the operation's ugid scope object is alive
InScope ==
  { "rmdir_check", "rmdir_loop", "getxattr_lock", "getxattr_search", "getxattr_attr",
    "getxattr_unlock", "getxattr_reset" }

\* C7: with operations of different callers running on different workers, every
\* system call of an operation runs under the uid/gid of that operation's own
\* caller, and the identity a worker applied stays applied while its scope lives.
C7_OwnIdentity ==
  \A t \in Threads :
    /\ \A i \in 1..Len(calls[t]) : calls[t][i].ugid = op[t].caller
    /\ pc[t] \in InScope => ugid[t] = op[t].caller

\* where credentials are per thread, every system call of an operation runs
\* under its own caller's uid/gid while another caller's operation is in flight
C7_ThreadLocalIdentity ==
  credentials = "thread" => C7_OwnIdentity

\* t's attribute read was served by this code: a valid key of the control file,
\* or a diagnostic key of an ordinary path whose branch the Search policy found
ServedControl(t) ==
  IsGetxattr(t) /\ OnControlFile(t) /\ op[t].attrname \in ValidControlNames

ServedDiag(t) ==
  /\ IsGetxattr(t) /\ ~OnControlFile(t)
  /\ op[t].attrname \in DiagNames
  /\ frame[t].served = "diag"

\* the buffer after exactly the value was copied to its start
Copied(value) == memcpy(FreshBuf, value, Len(value))

\* the size protocol for a value: probe, range error, copy
SizeProbe(t, value) ==
  op[t].count = 0 => (result[t] = Len(value) /\ buf[t] = FreshBuf)

RangeOrCopy(t, value) ==
  /\ (0 < op[t].count /\ op[t].count < Len(value)) =>
       (result[t] = -ERANGE /\ buf[t] = FreshBuf)
  /\ op[t].count >= Len(value) =>
       (result[t] = Len(value) /\ buf[t] = Copied(value))

\* the control file's answer when the value it computed is empty
EmptyIsNoAttr(t) == result[t] = -ENOATTR /\ buf[t] = FreshBuf

\* C8 as stated: for every valid control-file key and every diagnostic key, a read
\* with size 0 returns the value's byte length and writes nothing.
C8_SizeProbe_AsStated ==
  \A t \in Threads :
    (pc[t] = "done" /\ (ServedControl(t) \/ ServedDiag(t))) =>
      SizeProbe(t, frame[t].attrvalue)

\* C8 amended: as stated for the diagnostic keys and for the control-file keys
\* whose value is not empty; a control-file key whose value is empty (srcmounts of
\* an empty branch list) returns -ENOATTR, and writes nothing.
C8_SizeProbe ==
  \A t \in Threads :
    /\ (pc[t] = "done" /\ ServedDiag(t)) => SizeProbe(t, frame[t].attrvalue)
    /\ (pc[t] = "done" /\ ServedControl(t)) =>
         IF frame[t].attrvalue = <<>>
         THEN op[t].count = 0 => EmptyIsNoAttr(t)
         ELSE SizeProbe(t, frame[t].attrvalue)

\* a size probe of the control file's srcmounts over two branches: "/a:/b" is 5 bytes
C8_Witness ==
  \E t \in Threads :
    /\ pc[t] = "done" /\ ServedControl(t)
    /\ op[t].attrname = s_prefix \o s_srcmounts
    /\ op[t].count = 0
    /\ Len(config.srcmounts) = 2
    /\ result[t] = 5
    /\ buf[t] = FreshBuf

\* C9 as stated: for every read served by this code, a size s with
\* 0 < s < length(value) returns -ERANGE and leaves the buffer untouched, and a
\* size s >= length(value) copies exactly length(value) bytes and returns it.
C9_RangeOrCopy_AsStated ==
  \A t \in Threads :
    (pc[t] = "done" /\ (ServedControl(t) \/ ServedDiag(t))) =>
      RangeOrCopy(t, frame[t].attrvalue)

\* C9 amended: as stated for the diagnostic keys and for the control-file keys
\* whose value is not empty; a control-file key whose value is empty returns
\* -ENOATTR for every size, and writes nothing.
C9_RangeOrCopy ==
  \A t \in Threads :
    /\ (pc[t] = "done" /\ ServedDiag(t)) => RangeOrCopy(t, frame[t].attrvalue)
    /\ (pc[t] = "done" /\ ServedControl(t)) =>
         IF frame[t].attrvalue = <<>>
         THEN EmptyIsNoAttr(t)
         ELSE RangeOrCopy(t, frame[t].attrvalue)

\* the diagnostic key basepath read into a buffer of exactly the value's length
C9_Witness ==
  \E t \in Threads :
    /\ pc[t] = "done" /\ ServedDiag(t)
    /\ op[t].attrname = s_prefix \o s_basepath
    /\ op[t].count = Len(frame[t].attrvalue)
    /\ op[t].count > 0
    /\ result[t] = op[t].count
    /\ buf[t] = Copied(frame[t].basepath)

\* the name is outside the prefix "user.mergerfs"
OutsidePrefix(attrname) ==
  LET attr == split(attrname, ".")
  IN \/ Len(attr) < 2
     \/ attr[1] # s_user
     \/ attr[2] # s_mergerfs

\* C10: a control-file read of any name outside the prefix, names of fewer than
\* two segments included, yields -ENOATTR with no out-of-range access to the
\* split segments and no buffer write.
C10_PrefixValidated ==
  \A t \in Threads :
    (IsGetxattr(t) /\ OnControlFile(t) /\ OutsidePrefix(op[t].attrname)) =>
      /\ ~oob[t]
      /\ pc[t] # "fault"
      /\ pc[t] = "done" => (result[t] = -ENOATTR /\ buf[t] = FreshBuf)

\* the name is under the prefix and what follows is no key of the control file
\* and no diagnostic key
UnknownKey(attrname) ==
  /\ ~OutsidePrefix(attrname)
  /\ attrname \notin ValidControlNames
  /\ attrname \notin DiagNames

\* C11: a control-file read of a name under the prefix that is no recognised key
\* (an unknown key, an unknown second-level family, category or func with an
\* unknown name, or a segment count other than 3 or 4) computes an empty value and
\* returns -ENOATTR for every buffer size, size 0 included, writing nothing.
C11_UnknownKey ==
  \A t \in Threads :
    (pc[t] = "done" /\ IsGetxattr(t) /\ OnControlFile(t) /\ UnknownKey(op[t].attrname)) =>
      /\ frame[t].attrvalue = <<>>
      /\ result[t] = -ENOATTR
      /\ buf[t] = FreshBuf
      /\ ~oob[t]

\* a size probe of func.bogus on the control file answered with -ENOATTR
C11_Witness ==
  \E t \in Threads :
    /\ pc[t] = "done" /\ IsGetxattr(t) /\ OnControlFile(t)
    /\ op[t].attrname = s_prefix \o s_func \o <<".">> \o s_bogus
    /\ op[t].count = 0
    /\ result[t] = -ENOATTR
    /\ buf[t] = FreshBuf

\* the value a diagnostic name stands for, given the branch the Search policy chose
DiagValue(t) ==
  LET key == split(op[t].attrname, ".")[3]
  IN IF key = s_basepath THEN frame[t].basepath
     ELSE IF key = s_relpath THEN op[t].fusepath
     ELSE IF key = s_fullpath THEN frame[t].basepath \o op[t].fusepath
     ELSE allpaths_value(config.srcmounts, op[t].fusepath, present)

\* C12: the diagnostic keys basepath, relpath, fullpath and allpaths are served on
\* any path, the control file included: the read is answered with the diagnostic
\* value, never handed to ordinary retrieval and never rejected.
C12_DiagOnAnyPath ==
  \A t \in Threads :
    (pc[t] = "done" /\ IsGetxattr(t) /\ op[t].attrname \in DiagNames
       /\ (OnControlFile(t) \/ frame[t].paths # <<>>)) =>
      /\ frame[t].served = "diag"
      /\ result[t] # -ENOATTR
      /\ ~OnControlFile(t) => frame[t].attrvalue = DiagValue(t)

\* the lgetxattr calls of t's operation
GetxattrCalls(t) == SelectSeq(calls[t], LAMBDA c : c.sys = "lgetxattr")

\* C13: on an ordinary path every name other than the four diagnostic keys, other
\* names under the reserved prefix included, goes unchanged to exactly one
\* lgetxattr on the first candidate of the Search policy, and that call's result
\* (byte count or negated errno) is what the caller gets.
C13_PassThrough ==
  \A t \in Threads :
    (pc[t] = "done" /\ IsGetxattr(t) /\ ~OnControlFile(t)
       /\ op[t].attrname \notin DiagNames /\ frame[t].paths # <<>>) =>
      LET under == lgetxattr(frame[t].paths[1], op[t].fusepath, op[t].attrname,
                             op[t].count, present)
      IN /\ Len(GetxattrCalls(t)) = 1
         /\ GetxattrCalls(t)[1].path = path_make(frame[t].paths[1], op[t].fusepath)
         /\ result[t] = under.rv

\* the fully-qualified paths of fusepath on the branches holding it, in the
\* configured order
HeldPaths(srcmounts, fusepath, fs) ==
  LET held == SelectSeq(srcmounts, LAMBDA b : b \in fs)
  IN [i \in 1..Len(held) |-> held[i] \o fusepath]

IsAllpaths(t) ==
  /\ IsGetxattr(t) /\ ~OnControlFile(t)
  /\ op[t].attrname = s_prefix \o s_allpaths
  /\ frame[t].served = "diag"

\* C14: the allpaths value, split on the NUL byte, is exactly the fully-qualified
\* paths of the entry on every branch holding it, in branch-configured order: no
\* holder omitted, no other branch listed, whichever branch the Search policy chose.
C14_Allpaths ==
  \A t \in Threads :
    (pc[t] = "done" /\ IsAllpaths(t)) =>
      split(frame[t].attrvalue, NUL) = HeldPaths(config.srcmounts, op[t].fusepath, present)

\* allpaths over the branch list </a,/b> with the entry on both, while the Search
\* policy mfs chose /b: the value lists /a/d, then /b/d
C14_Witness ==
  \E t \in Threads :
    /\ pc[t] = "done" /\ IsAllpaths(t)
    /\ config.srcmounts = <<BranchA, BranchB>>
    /\ present = Branches
    /\ frame[t].basepath = BranchB
    /\ split(frame[t].attrvalue, NUL) = <<BranchA \o PathD, BranchB \o PathD>>
    /\ result[t] = Len(frame[t].attrvalue)

\* t read the control file's key category.<c>
IsCategoryRead(t, c) ==
  /\ IsGetxattr(t) /\ OnControlFile(t)
  /\ op[t].attrname = s_prefix \o s_category \o <<".">> \o c

\* the policies assigned to the functions of category c
AssignedTo(c) ==
  { config.policies[i] : i \in { j \in 1..Len(FuseFuncs) : FuseFuncs[j].category = c } }

\* C15: for every category and every assignment of policies, the control file's
\* category.<name> is a comma-joined list that is strictly ascending and whose
\* elements are exactly the policies assigned to the functions of that category.
C15_CategoryList ==
  \A t \in Threads : \A c \in Categories :
    (pc[t] = "done" /\ IsCategoryRead(t, c)) =>
      LET list == split(frame[t].attrvalue, ",")
      IN /\ \A i \in 1..(Len(list) - 1) : StrLess(list[i], list[i + 1])
         /\ { list[i] : i \in 1..Len(list) } = AssignedTo(c)

\* category.action read while chmod and rmdir share the policy all: the value is
\* "all", once
C15_Witness ==
  \E t \in Threads :
    /\ pc[t] = "done" /\ IsCategoryRead(t, s_action)
    /\ config.policies[FuseFunc_find(s_chmod)] = s_all
    /\ config.policies[FF_rmdir] = s_all
    /\ op[t].count = BufCap
    /\ frame[t].attrvalue = s_all
    /\ result[t] = Len(s_all)

\* the branch a Search policy stands for: under mfs the holder with the most free
\* space, otherwise the first holder in configured order
ExpectedBranch(policy, srcmounts, fusepath, fs) ==
  LET H == Holding(srcmounts, fusepath, fs)
  IN IF policy = s_mfs
     THEN srcmounts[CHOOSE i \in H : \A j \in H : FreeSpace(srcmounts[j]) <= FreeSpace(srcmounts[i])]
     ELSE srcmounts[CHOOSE i \in H : \A j \in H : i <= j]

\* C16: a runtime change of the policy assigned to a function takes effect on the
\* next call: an attribute read resolves with the Search policy assigned when it
\* is made, and the control file's func.<name> is the policy assigned when it is
\* read, never one of an earlier call.
C16_PolicyAtCallTime ==
  \A t \in Threads :
    /\ (pc[t] = "done" /\ IsGetxattr(t) /\ ~OnControlFile(t) /\ frame[t].paths # <<>>) =>
         frame[t].basepath = ExpectedBranch(config.policies[FF_getxattr], config.srcmounts,
                                            op[t].fusepath, present)
    /\ \A f \in 1..Len(FuseFuncs) :
         (pc[t] = "done" /\ IsGetxattr(t) /\ OnControlFile(t)
            /\ op[t].attrname = s_prefix \o s_func \o <<".">> \o FuseFuncs[f].name) =>
           /\ frame[t].attrvalue = config.policies[f]
           /\ op[t].count = BufCap => buf[t] = Copied(config.policies[f])

\* after getxattr's policy was changed from the startup ff to mfs, basepath read
\* over </a,/b> with the entry on both: the answer is /b, where ff gives /a
C16_Witness ==
  \E t \in Threads :
    /\ pc[t] = "done" /\ IsGetxattr(t) /\ ~OnControlFile(t)
    /\ op[t].attrname = s_prefix \o s_basepath
    /\ op[t].count = BufCap
    /\ DefaultAssignment[FF_getxattr] = s_ff
    /\ config.policies[FF_getxattr] = s_mfs
    /\ config.srcmounts = <<BranchA, BranchB>>
    /\ present = Branches
    /\ buf[t] = Copied(BranchB)

IsPoliciesRead(t) ==
  IsGetxattr(t) /\ OnControlFile(t) /\ op[t].attrname = s_prefix \o s_policies

\* C17: the control file's key policies, split on ',', is the registry's policy
\* names in registry order, element for element: none twice, none missing, none
\* added, whatever policies are currently assigned.
C17_PoliciesRoundTrip ==
  \A t \in Threads :
    (pc[t] = "done" /\ IsPoliciesRead(t)) =>
      LET list == split(frame[t].attrvalue, ",")
      IN /\ list = Policies
         /\ \A i, j \in 1..Len(list) : list[i] = list[j] => i = j

\* policies read in full while every function is assigned mfs: "all,ff,mfs"
C17_Witness ==
  \E t \in Threads :
    /\ pc[t] = "done" /\ IsPoliciesRead(t)
    /\ \A f \in 1..Len(FuseFuncs) : config.policies[f] = s_mfs
    /\ op[t].count = BufCap
    /\ result[t] = Len(s_all) + 1 + Len(s_ff) + 1 + Len(s_mfs)
    /\ buf[t] = Copied(s_all \o <<",">> \o s_ff \o <<",">> \o s_mfs)

\* the ::rmdir calls issued so far are those on the first k candidates, in the
\* candidates' order, one each
AttemptedInOrder(t, k) ==
  /\ Len(RmdirCalls(t)) = k
  /\ \A j \in 1..k : RmdirCalls(t)[j].path = frame[t].paths[j].full

\* C18: the loop of directory-remove issues one ::rmdir per candidate, one after
\* the other in the candidates' order, and stops neither at a success nor at a
\* failure: while it runs the calls issued are those on the candidates before the
\* current one, when it has returned every candidate was attempted exactly once,
\* and a loop entered over n candidates does return, after n calls.
C18_EachCandidateOnce ==
  /\ [](\A t \in Threads :
          /\ pc[t] = "rmdir_loop" => AttemptedInOrder(t, frame[t].i - 1)
          /\ (pc[t] = "done" /\ IsRmdir(t) /\ frame[t].paths # <<>>) =>
               AttemptedInOrder(t, Len(frame[t].paths)))
  /\ \A t \in Threads :
       (pc[t] = "rmdir_loop") ~>
         (pc[t] = "done" /\ AttemptedInOrder(t, Len(frame[t].paths)))

\* a remove over </b,/a> finished: /b/d was removed, then /a/d was attempted and
\* refused
C18_Witness ==
  \E t \in Threads :
    /\ pc[t] = "done" /\ IsRmdir(t)
    /\ Len(frame[t].paths) = 2
    /\ AttemptedInOrder(t, 2)
    /\ RmdirCalls(t)[1].path = BranchB \o PathD /\ RmdirCalls(t)[1].rv = 0
    /\ RmdirCalls(t)[2].path = BranchA \o PathD /\ RmdirCalls(t)[2].rv = -1

\* the explicit formulation: a flag "any succeeded" and a variable "last error",
\* both brought up to date at every iteration
RECURSIVE explicit_fold(_,_,_)
explicit_fold(outs, any, last) ==
  IF outs = <<>> THEN [any |-> any, last |-> last]
  ELSE explicit_fold(Tail(outs),
                     any \/ Head(outs).rv = 0,
                     IF Head(outs).rv = -1 THEN Head(outs).errno ELSE last)

explicit_result(outs) ==
  LET r == explicit_fold(outs, FALSE, 0)
  IN IF r.any THEN 0 ELSE -r.last

\* C19: over every non-empty sequence of ::rmdir outcomes, each 0 or -1 with an
\* errno, the accumulator of directory-remove (rv = -1, rv &= outcome, error = errno
\* while rv is -1) returns what the explicit formulation returns: after each
\* iteration of the loop the value it would return, and at the end the value it
\* does return, is the explicit formulation's over the outcomes so far.
C19_AccumulatorEquivalent ==
  \A t \in Threads :
    /\ (pc[t] = "rmdir_loop" /\ RmdirCalls(t) # <<>>) =>
         rmdir_result(frame[t].rv, frame[t].error) = explicit_result(RmdirCalls(t))
    /\ (pc[t] = "done" /\ IsRmdir(t) /\ RmdirCalls(t) # <<>>) =>
         result[t] = explicit_result(RmdirCalls(t))

\* three candidates: a refusal, a success, a refusal again: both return 0
C19_Witness ==
  \E t \in Threads :
    /\ pc[t] = "done" /\ IsRmdir(t)
    /\ Len(RmdirCalls(t)) = 3
    /\ RmdirCalls(t)[1].rv = -1 /\ RmdirCalls(t)[2].rv = 0 /\ RmdirCalls(t)[3].rv = -1
    /\ RmdirCalls(t)[1].errno # RmdirCalls(t)[3].errno
    /\ result[t] = 0
    /\ explicit_result(RmdirCalls(t)) = 0

\* C20: on an ordinary path the Search policy resolves before any key under the
\* prefix is looked at: when it fails, a read of a diagnostic key or of an unknown
\* prefixed key returns the resolution error, not a value and not -ENOATTR, and
\* the first candidate is used only once the resolver has reported success.
C20_ResolutionFirst ==
  \A t \in Threads :
    /\ (pc[t] = "done" /\ IsGetxattr(t) /\ ~OnControlFile(t)
          /\ isprefix(op[t].attrname, s_prefix)
          /\ Holding(config.srcmounts, op[t].fusepath, present) = {}) =>
         /\ result[t] = -ENOENT
         /\ frame[t].served = "none"
         /\ frame[t].basepath = <<>>
         /\ buf[t] = FreshBuf
         /\ ~oob[t]
    /\ pc[t] = "getxattr_attr" => (frame[t].resolved /\ frame[t].rv = 0)
    /\ frame[t].basepath # <<>> =>
         /\ frame[t].resolved
         /\ frame[t].paths # <<>>
         /\ frame[t].basepath = frame[t].paths[1]

\* relpath asked of a directory that no listed branch holds, though a branch
\* outside the list does: the answer is -ENOENT
C20_Witness ==
  \E t \in Threads :
    /\ pc[t] = "done" /\ IsGetxattr(t) /\ ~OnControlFile(t)
    /\ op[t].attrname = s_prefix \o s_relpath
    /\ op[t].count = 0
    /\ present # {}
    /\ Holding(config.srcmounts, op[t].fusepath, present) = {}
    /\ result[t] = -ENOENT

====
